---- MODULE Spec2Model ----
(***************************************************************************)
(* Model of the log viewer (package main of log_viewer): the ingestion of  *)
(* raw log lines (parseRawLogs), the bubbletea Model with its Update and   *)
(* View methods, and the filter filterLogs.                                *)
(*                                                                         *)
(* Strings are sequences of one-character strings, so that substring       *)
(* search, lower-casing and integer parsing are computed, not assumed.     *)
(***************************************************************************)
EXTENDS Integers, Sequences, FiniteSets, TLC

VARIABLES
    launch,           \* main: standard input, environment and pod logs at start
    source,           \* main: where the raw lines came from
    rawLogs,          \* main: the raw lines handed to parseRawLogs
    logs,             \* Model.logs
    filteredLogs,     \* Model.filteredLogs
    selectedLogIndex, \* Model.selectedLogIndex
    searchMode,       \* Model.searchMode
    jumpMode,         \* Model.jumpMode
    searchQuery,      \* Model.searchQuery
    width,            \* Model.width
    height,           \* Model.height
    prev,             \* the Model the last Update was called on
    msg,              \* the last tea.Msg delivered to Update
    cmd,              \* the tea.Cmd returned by the last Update
    status,           \* the program: "running", "quit", "panic", "exit"
    fLogs,            \* filterLogs harness: argument logs
    fQuery,           \* filterLogs harness: argument query
    fResult,          \* filterLogs harness: the returned slice
    fDone,            \* filterLogs harness: the call has returned
    wLen,             \* renderLogList harness: len(logs)
    wSel,             \* renderLogList harness: argument selectedIdx
    wHeight,          \* renderLogList harness: argument height
    wWindow,            \* renderLogList harness: the window of rows drawn
    wDone             \* renderLogList harness: the call has returned

tuiVars == <<rawLogs, logs, filteredLogs, selectedLogIndex, searchMode,
             jumpMode, searchQuery, width, height, prev, msg, cmd, status>>

harnessVars == <<fLogs, fQuery, fResult, fDone>>

windowVars == <<wLen, wSel, wHeight, wWindow, wDone>>

mainVars == <<launch, source>>

vars == <<tuiVars, harnessVars, windowVars, mainVars>>

----------------------------------------------------------------------------
(* Bounds of the model *)

\* longest input buffer the user types
MaxQueryLen == 2

\* longest record list handed to filterLogs in the harness
MaxFilterLogs == 2

----------------------------------------------------------------------------
(* Strings *)

UpperChars == <<"A","B","C","D","E","F","G","H","I","J","K","L","M",
                "N","O","P","Q","R","S","T","U","V","W","X","Y","Z">>

LowerChars == <<"a","b","c","d","e","f","g","h","i","j","k","l","m",
                "n","o","p","q","r","s","t","u","v","w","x","y","z">>

DigitChars == <<"0","1","2","3","4","5","6","7","8","9">>

\* strings.ToLower on one character of the ASCII range
ToLowerChar(c) ==
    IF \E i \in 1..Len(UpperChars) : UpperChars[i] = c
    THEN LowerChars[CHOOSE i \in 1..Len(UpperChars) : UpperChars[i] = c]
    ELSE c

\* strings.ToLower
ToLower(s) == [i \in 1..Len(s) |-> ToLowerChar(s[i])]

\* strings.Contains
Contains(s, substr) ==
    \E i \in 0..(Len(s) - Len(substr)) :
        SubSeq(s, i + 1, i + Len(substr)) = substr

\* strings.HasPrefix / strings.HasSuffix with a one-character argument
HasPrefix(s, c) == Len(s) >= 1 /\ s[1] = c

HasSuffix(s, c) == Len(s) >= 1 /\ s[Len(s)] = c

\* strings.Join(lines, "\n")
RECURSIVE Join(_)
Join(lines) ==
    IF Len(lines) = 0 THEN <<>>
    ELSE IF Len(lines) = 1 THEN lines[1]
    ELSE lines[1] \o <<"\n">> \o Join(Tail(lines))

\* the decimal rendering of a natural number
RECURSIVE FormatNat(_)
FormatNat(n) ==
    IF n < 10 THEN <<DigitChars[n + 1]>>
    ELSE FormatNat(n \div 10) \o <<DigitChars[(n % 10) + 1]>>

\* the value of a decimal digit character, 10 for any other character
DigitValue(c) ==
    IF \E d \in 1..10 : DigitChars[d] = c
    THEN (CHOOSE d \in 1..10 : DigitChars[d] = c) - 1
    ELSE 10

\* the loop of strconv.Atoi over the digits: n = n*10 + ch
RECURSIVE AtoiDigits(_, _)
AtoiDigits(s, n) ==
    IF Len(s) = 0 THEN [ok |-> TRUE, n |-> n]
    ELSE IF DigitValue(s[1]) > 9 THEN [ok |-> FALSE, n |-> 0]
    ELSE AtoiDigits(Tail(s), n * 10 + DigitValue(s[1]))

\* strconv.Atoi (inputs short enough not to overflow): an optional sign,
\* then at least one digit, and nothing else
Atoi(s) ==
    IF Len(s) = 0 THEN [ok |-> FALSE, n |-> 0]
    ELSE LET signed == s[1] = "-" \/ s[1] = "+"
             digits == IF signed THEN Tail(s) ELSE s
             r      == AtoiDigits(digits, 0)
         IN  IF Len(digits) < 1 THEN [ok |-> FALSE, n |-> 0]
             ELSE IF ~r.ok THEN r
             ELSE IF s[1] = "-" THEN [ok |-> TRUE, n |-> 0 - r.n]
             ELSE r

----------------------------------------------------------------------------
(* JSON values and the decoding of the input texts *)

\* the values of a decoded JSON object (map[string]interface{}): float64,
\* string and nil
Num(value) == [t |-> "num", n |-> value, s |-> <<>>]

Str(value) == [t |-> "str", n |-> 0, s |-> value]

Nil == [t |-> "nil", n |-> 0, s |-> <<>>]

\* fmt.Sprint of a key or of a field value (float64 values are small
\* non-negative integers, which %v prints without exponent or fraction)
Sprint(v) ==
    IF v.t = "num" THEN FormatNat(v.n)
    ELSE IF v.t = "str" THEN v.s
    ELSE <<"<", "n", "i", "l", ">">>

\* the input texts
TxtA == <<"{", "\"", "e", "\"", ":", "1", "}">>

TxtB == <<"{", "\"", "E", "\"", ":", "2", "}">>

TxtC == <<"{", "\"", "z", "\"", ":", "1", "e", "1", "}">>

\* the line of TxtA followed by a blank
TxtAPadded == TxtA \o <<" ">>

TxtText == <<"-">>

TxtBrace == <<"{", "e", "}">>

TxtArrC == <<"[">> \o TxtC \o <<"]">>

TxtArrEmpty == <<"[", "]">>

TxtNull == <<"n", "u", "l", "l">>

\* the maps the object texts decode to; a map is a set of key/value pairs
FieldsA == {[k |-> <<"e">>, v |-> Num(1)]}

FieldsB == {[k |-> <<"E">>, v |-> Num(2)]}

FieldsC == {[k |-> <<"z">>, v |-> Num(10)]}

\* json.Unmarshal(text, &fields) with fields a map[string]interface{}
UnmarshalObject(text) ==
    IF text = TxtA \/ text = TxtAPadded THEN [ok |-> TRUE, fields |-> FieldsA]
    ELSE IF text = TxtB THEN [ok |-> TRUE, fields |-> FieldsB]
    ELSE IF text = TxtC THEN [ok |-> TRUE, fields |-> FieldsC]
    ELSE [ok |-> FALSE, fields |-> {}]

\* json.Unmarshal(text, &logsArray) with logsArray a []map[string]interface{}:
\* an array of objects and the literal null decode, anything else is an error
UnmarshalArray(text) ==
    IF text = TxtArrC THEN [ok |-> TRUE, elems |-> <<FieldsC>>]
    ELSE IF text = TxtArrEmpty \/ text = TxtNull THEN [ok |-> TRUE, elems |-> <<>>]
    ELSE [ok |-> FALSE, elems |-> <<>>]

\* json.Marshal of a field value
MarshalValue(v) ==
    IF v.t = "num" THEN FormatNat(v.n)
    ELSE IF v.t = "str" THEN <<"\"">> \o v.s \o <<"\"">>
    ELSE <<"n", "u", "l", "l">>

\* json.Marshal of a decoded object with at most one key
Marshal(fields) ==
    IF fields = {} THEN <<"{", "}">>
    ELSE LET f == CHOOSE f \in fields : TRUE
         IN  <<"{", "\"">> \o f.k \o <<"\"", ":">> \o MarshalValue(f.v) \o <<"}">>

----------------------------------------------------------------------------
(* log_parser.go *)

ParsedLog(raw, fields, lineNumber) ==
    [RawLog |-> raw, Fields |-> fields, LineNumber |-> lineNumber]

\* ParseLog: the record, or an error when the line is no JSON object
ParseLog(line, lineNumber) ==
    LET r == UnmarshalObject(line)
    IN  IF ~r.ok THEN [err |-> TRUE, log |-> ParsedLog(<<>>, {}, 0)]
        ELSE [err |-> FALSE, log |-> ParsedLog(line, r.fields, lineNumber)]

\* parseRawLogs, the line-by-line loop from line i on
RECURSIVE ParseLines(_, _, _)
ParseLines(lines, i, parsedLogs) ==
    IF i > Len(lines) THEN parsedLogs
    ELSE IF HasPrefix(lines[i], "{") /\ HasSuffix(lines[i], "}")
         THEN LET r == ParseLog(lines[i], i)
              IN  IF r.err THEN ParseLines(lines, i + 1, parsedLogs)
                  ELSE ParseLines(lines, i + 1, Append(parsedLogs, r.log))
         ELSE ParseLines(lines, i + 1, parsedLogs)

\* parseRawLogs
parseRawLogs(lines) ==
    LET arr == UnmarshalArray(Join(lines))
    IN  IF arr.ok
        THEN [err |-> FALSE,
              logs |-> [i \in 1..Len(arr.elems) |->
                           ParsedLog(Marshal(arr.elems[i]), arr.elems[i], i)]]
        ELSE LET parsedLogs == ParseLines(lines, 1, <<>>)
             IN  IF Len(parsedLogs) = 0 THEN [err |-> TRUE, logs |-> <<>>]
                 ELSE [err |-> FALSE, logs |-> parsedLogs]

\* the inputs of main: the lines piped on standard input
RawInputs ==
    { <<TxtA, TxtB>>,
      <<TxtText, TxtA, TxtAPadded>>,
      <<TxtA, TxtBrace, TxtC, TxtB>>,
      <<TxtArrC>>,
      <<TxtArrEmpty>>,
      <<TxtNull>>,
      <<TxtText>> }

----------------------------------------------------------------------------
(* tui.go: filterLogs *)

\* the test of one record in the loop of filterLogs
LogMatches(log, lowerQuery) ==
    \/ Contains(ToLower(log.RawLog), lowerQuery)
    \/ \E f \in log.Fields :
          \/ Contains(ToLower(Sprint(Str(f.k))), lowerQuery)
          \/ Contains(ToLower(Sprint(f.v)), lowerQuery)

\* a loop that puts each match in front of the earlier ones
RECURSIVE FilterLoopPrepend(_, _, _, _)
FilterLoopPrepend(ls, lowerQuery, i, filtered) ==
    IF i > Len(ls) THEN filtered
    ELSE IF LogMatches(ls[i], lowerQuery)
         THEN FilterLoopPrepend(ls, lowerQuery, i + 1, <<ls[i]>> \o filtered)
         ELSE FilterLoopPrepend(ls, lowerQuery, i + 1, filtered)

\* the loop of filterLogs from record i on
RECURSIVE FilterLoop(_, _, _, _)
FilterLoop(ls, lowerQuery, i, filtered) ==
    IF i > Len(ls) THEN filtered
    ELSE IF LogMatches(ls[i], lowerQuery)
         THEN FilterLoop(ls, lowerQuery, i + 1, Append(filtered, ls[i]))
         ELSE FilterLoop(ls, lowerQuery, i + 1, filtered)

\* a filterLogs that leaves out the first of the matching records
filterLogsDropsFirstMatch(ls, query) ==
    IF query = <<>> THEN ls
    ELSE LET filtered == FilterLoop(ls, ToLower(query), 1, <<>>)
         IN  IF Len(filtered) = 0 THEN filtered ELSE Tail(filtered)

\* a filterLogs that compares with the query as typed, not lower-cased
filterLogsQueryAsTyped(ls, query) ==
    IF query = <<>> THEN ls
    ELSE FilterLoop(ls, query, 1, <<>>)

filterLogs(ls, query) ==
    IF query = <<>> THEN ls
    ELSE FilterLoop(ls, ToLower(query), 1, <<>>)

----------------------------------------------------------------------------
(* tui.go: the Model and its messages *)

\* the Model value of the program
Model ==
    [logs |-> logs, filteredLogs |-> filteredLogs,
     selectedLogIndex |-> selectedLogIndex, searchMode |-> searchMode,
     jumpMode |-> jumpMode, searchQuery |-> searchQuery,
     width |-> width, height |-> height]

\* tea.KeyMsg{Type: keyType, Runes: keyRunes}; keyRunes holds one character
\* for a KeyRunes message and is empty for the other key types
KeyMsg(keyType, keyRunes) ==
    [kind |-> "key", type |-> keyType, runes |-> keyRunes, w |-> 0, h |-> 0]

\* tea.WindowSizeMsg{Width: msgWidth, Height: msgHeight}
WindowSizeMsg(msgWidth, msgHeight) ==
    [kind |-> "size", type |-> "", runes |-> <<>>, w |-> msgWidth, h |-> msgHeight]

\* no message delivered yet
NoMsg == [kind |-> "none", type |-> "", runes |-> <<>>, w |-> 0, h |-> 0]

\* tea.KeyMsg.String()
KeyString(m) ==
    IF m.type = "KeyRunes" THEN m.runes[1]
    ELSE IF m.type = "KeyUp" THEN "up"
    ELSE IF m.type = "KeyDown" THEN "down"
    ELSE IF m.type = "KeyEsc" THEN "esc"
    ELSE IF m.type = "KeyEnter" THEN "enter"
    ELSE IF m.type = "KeyBackspace" THEN "backspace"
    ELSE IF m.type = "KeyCtrlC" THEN "ctrl+c"
    ELSE "tab"

\* the characters the user types
Runes == {"q", "k", "j", "/", "s", "E", "0", "1", "2", "-"}

\* the other keys the user presses
SpecialKeys == {"KeyUp", "KeyDown", "KeyEsc", "KeyEnter", "KeyBackspace",
                "KeyCtrlC", "KeyTab"}

\* the terminal sizes of the resize notifications
WindowSizes == {<<80, 24>>, <<100, 40>>}

----------------------------------------------------------------------------
(* tui.go: Update *)

\* a jump that accepts every target below len(m.logs), negative ones too
UpdateJumpNoLowerBound(m) ==
    LET a         == Atoi(m.searchQuery)
        targetIdx == a.n - 1
        sel       == IF a.ok /\ targetIdx < Len(m.logs)
                     THEN targetIdx
                     ELSE m.selectedLogIndex
    IN  [m EXCEPT !.selectedLogIndex = sel, !.jumpMode = FALSE,
                  !.searchQuery = <<>>]

\* a jump that also drops the filter
UpdateJumpResetsFilter(m) ==
    LET a         == Atoi(m.searchQuery)
        targetIdx == a.n - 1
        sel       == IF a.ok /\ targetIdx >= 0 /\ targetIdx < Len(m.logs)
                     THEN targetIdx
                     ELSE m.selectedLogIndex
    IN  [m EXCEPT !.selectedLogIndex = sel, !.filteredLogs = m.logs,
                  !.jumpMode = FALSE, !.searchQuery = <<>>]

\* case "enter" with jumpMode set
UpdateJump(m) ==
    LET a         == Atoi(m.searchQuery)
        targetIdx == a.n - 1
        sel       == IF a.ok /\ targetIdx >= 0 /\ targetIdx < Len(m.logs)
                     THEN targetIdx
                     ELSE m.selectedLogIndex
    IN  [m EXCEPT !.selectedLogIndex = sel, !.jumpMode = FALSE,
                  !.searchQuery = <<>>]

\* a search that filters the current view instead of m.logs
UpdateSearchNarrowing(m) ==
    LET filtered == filterLogs(m.filteredLogs, m.searchQuery)
    IN  [m EXCEPT !.filteredLogs = filtered,
                  !.selectedLogIndex =
                      IF Len(filtered) > 0 THEN 0 ELSE m.selectedLogIndex,
                  !.searchMode = FALSE, !.searchQuery = <<>>]

\* a search that leaves the query in the buffer
UpdateSearchKeepsQuery(m) ==
    LET filtered == filterLogs(m.logs, m.searchQuery)
    IN  [m EXCEPT !.filteredLogs = filtered,
                  !.selectedLogIndex =
                      IF Len(filtered) > 0 THEN 0 ELSE m.selectedLogIndex,
                  !.searchMode = FALSE]

\* case "enter" with searchMode set
UpdateSearch(m) ==
    LET filtered == filterLogs(m.logs, m.searchQuery)
    IN  [m EXCEPT !.filteredLogs = filtered,
                  !.selectedLogIndex =
                      IF Len(filtered) > 0 THEN 0 ELSE m.selectedLogIndex,
                  !.searchMode = FALSE, !.searchQuery = <<>>]

\* a default case that appends and deletes in every mode
UpdateDefaultIgnoresMode(m, k) ==
    IF k.type = "KeyBackspace" /\ Len(m.searchQuery) > 0
    THEN [m EXCEPT !.searchQuery = SubSeq(m.searchQuery, 1, Len(m.searchQuery) - 1)]
    ELSE IF k.type = "KeyRunes"
         THEN [m EXCEPT !.searchQuery = m.searchQuery \o k.runes]
         ELSE m

\* the default case of the key switch
UpdateDefault(m, k) ==
    IF m.searchMode \/ m.jumpMode
    THEN IF k.type = "KeyBackspace" /\ Len(m.searchQuery) > 0
         THEN [m EXCEPT !.searchQuery = SubSeq(m.searchQuery, 1, Len(m.searchQuery) - 1)]
         ELSE IF k.type = "KeyRunes"
              THEN [m EXCEPT !.searchQuery = m.searchQuery \o k.runes]
              ELSE m
    ELSE m

\* case "up", "k"
MoveUp(m) ==
    IF m.selectedLogIndex > 0
    THEN [m EXCEPT !.selectedLogIndex = m.selectedLogIndex - 1]
    ELSE m

\* a move down that does not stop at the last record
MoveDownUnbounded(m) ==
    [m EXCEPT !.selectedLogIndex = m.selectedLogIndex + 1]

\* case "down", "j"
MoveDown(m) ==
    IF m.selectedLogIndex < Len(m.filteredLogs) - 1
    THEN [m EXCEPT !.selectedLogIndex = m.selectedLogIndex + 1]
    ELSE m

\* case tea.KeyMsg: the switch on msg.String()
UpdateKey(m, k) ==
    LET str == KeyString(k)
    IN  IF str = "ctrl+c" \/ str = "q" THEN [m |-> m, cmd |-> "quit"]
        ELSE IF str = "up" \/ str = "k"
        THEN [m |-> MoveUp(m), cmd |-> "nil"]
        ELSE IF str = "down" \/ str = "j"
        THEN [m |-> MoveDown(m), cmd |-> "nil"]
        ELSE IF str = "/"
        THEN [m |-> [m EXCEPT !.jumpMode = TRUE, !.searchMode = FALSE,
                              !.searchQuery = <<>>],
              cmd |-> "nil"]
        ELSE IF str = "s"
        THEN [m |-> [m EXCEPT !.searchMode = TRUE, !.jumpMode = FALSE,
                              !.searchQuery = <<>>],
              cmd |-> "nil"]
        ELSE IF str = "esc"
        THEN [m |-> [m EXCEPT !.searchMode = FALSE, !.jumpMode = FALSE,
                              !.searchQuery = <<>>],
              cmd |-> "nil"]
        ELSE IF str = "enter"
        THEN [m |-> IF m.jumpMode THEN UpdateJump(m)
                    ELSE IF m.searchMode THEN UpdateSearch(m)
                    ELSE m,
              cmd |-> "nil"]
        ELSE [m |-> UpdateDefault(m, k), cmd |-> "nil"]

\* an Update in which the quit keys only quit outside the input modes
UpdateQuitOnlyInNormal(m, message) ==
    IF message.kind = "key"
    THEN IF (m.searchMode \/ m.jumpMode)
            /\ KeyString(message) \in {"q", "ctrl+c"}
         THEN [m |-> UpdateDefault(m, message), cmd |-> "nil"]
         ELSE UpdateKey(m, message)
    ELSE IF message.kind = "size"
    THEN [m |-> [m EXCEPT !.width = message.w, !.height = message.h],
          cmd |-> "nil"]
    ELSE [m |-> m, cmd |-> "nil"]

\* an Update that stores the notified width and height the wrong way round
UpdateResizeSwapped(m, message) ==
    IF message.kind = "key" THEN UpdateKey(m, message)
    ELSE IF message.kind = "size"
    THEN [m |-> [m EXCEPT !.width = message.h, !.height = message.w],
          cmd |-> "nil"]
    ELSE [m |-> m, cmd |-> "nil"]

\* an Update in which "/" sets jumpMode and leaves searchMode as it was
UpdateSlashKeepsSearch(m, message) ==
    IF message.kind = "key" /\ KeyString(message) = "/"
    THEN [m |-> [m EXCEPT !.jumpMode = TRUE, !.searchQuery = <<>>],
          cmd |-> "nil"]
    ELSE IF message.kind = "key" THEN UpdateKey(m, message)
    ELSE IF message.kind = "size"
    THEN [m |-> [m EXCEPT !.width = message.w, !.height = message.h],
          cmd |-> "nil"]
    ELSE [m |-> m, cmd |-> "nil"]

\* an Update in which esc commits the typed text as enter does
UpdateEscCommits(m, message) ==
    IF message.kind = "key" /\ KeyString(message) = "esc"
    THEN UpdateKey(m, KeyMsg("KeyEnter", <<>>))
    ELSE IF message.kind = "key" THEN UpdateKey(m, message)
    ELSE IF message.kind = "size"
    THEN [m |-> [m EXCEPT !.width = message.w, !.height = message.h],
          cmd |-> "nil"]
    ELSE [m |-> m, cmd |-> "nil"]

\* Model.Update: the new Model and the command
Update(m, message) ==
    IF message.kind = "key" THEN UpdateKey(m, message)
    ELSE IF message.kind = "size"
    THEN [m |-> [m EXCEPT !.width = message.w, !.height = message.h],
          cmd |-> "nil"]
    ELSE [m |-> m, cmd |-> "nil"]

----------------------------------------------------------------------------
(* tui.go: View *)

NoLogsMessage == "No valid logs found. Press 'q' to quit."

\* renderDetailView: the panel, or nothing when width or height is not positive
DetailPanel(w, h) ==
    IF w <= 0 \/ h <= 0 THEN <<>> ELSE <<"Parsed Log Details">>

\* renderDetailView: what fmt.Print writes to standard output
DetailStdout(w, h) ==
    IF w <= 0 THEN "Width is 0, bailing out of renderDetailView early"
    ELSE IF h <= 0 THEN "Height is 0, bailing out of renderDetailView early"
    ELSE ""

\* renderDetailView: the groups of fields, in the order they are drawn
DetailGroups ==
    <<
      [name |-> "Request Info",
       fields |-> <<
          <<"s", "t", "a", "r", "t", "_", "t", "i", "m", "e">>,
          <<"m", "e", "t", "h", "o", "d">>,
          <<"p", "r", "o", "t", "o", "c", "o", "l">>,
          <<"a", "u", "t", "h", "o", "r", "i", "t", "y">>,
          <<"p", "a", "t", "h">>,
          <<"r", "e", "q", "u", "e", "s", "t", "_", "i", "d">>,
          <<"u", "s", "e", "r", "_", "a", "g", "e", "n", "t">>,
          <<"c", "l", "i", "e", "n", "t", "_", "i", "p">>,
          <<"x", "_", "f", "o", "r", "w", "a", "r", "d", "e", "d", "_",
            "f", "o", "r">> >>],
      [name |-> "Response Info",
       fields |-> <<
          <<"r", "e", "s", "p", "o", "n", "s", "e", "_", "c", "o", "d",
            "e">>,
          <<"r", "e", "s", "p", "o", "n", "s", "e", "_", "c", "o", "d",
            "e", "_", "d", "e", "t", "a", "i", "l", "s">>,
          <<"r", "e", "s", "p", "o", "n", "s", "e", "_", "f", "l", "a",
            "g", "s">>,
          <<"d", "u", "r", "a", "t", "i", "o", "n">>,
          <<"b", "y", "t", "e", "s", "_", "s", "e", "n", "t">>,
          <<"b", "y", "t", "e", "s", "_", "r", "e", "c", "e", "i", "v",
            "e", "d">> >>],
      [name |-> "Upstream Info",
       fields |-> <<
          <<"u", "p", "s", "t", "r", "e", "a", "m", "_", "c", "l", "u",
            "s", "t", "e", "r">>,
          <<"u", "p", "s", "t", "r", "e", "a", "m", "_", "h", "o", "s",
            "t">>,
          <<"u", "p", "s", "t", "r", "e", "a", "m", "_", "l", "o", "c",
            "a", "l", "_", "a", "d", "d", "r", "e", "s", "s">>,
          <<"u", "p", "s", "t", "r", "e", "a", "m", "_", "s", "e", "r",
            "v", "i", "c", "e", "_", "t", "i", "m", "e">>,
          <<"u", "p", "s", "t", "r", "e", "a", "m", "_", "t", "r", "a",
            "n", "s", "p", "o", "r", "t", "_", "f", "a", "i", "l", "u", "r",
            "e", "_", "r", "e", "a", "s", "o", "n">> >>],
      [name |-> "Downstream Info",
       fields |-> <<
          <<"d", "o", "w", "n", "s", "t", "r", "e", "a", "m", "_", "l",
            "o", "c", "a", "l", "_", "a", "d", "d", "r", "e", "s", "s">>,
          <<"d", "o", "w", "n", "s", "t", "r", "e", "a", "m", "_", "r",
            "e", "m", "o", "t", "e", "_", "a", "d", "d", "r", "e", "s",
            "s">>,
          <<"r", "e", "q", "u", "e", "s", "t", "e", "d", "_", "s", "e",
            "r", "v", "e", "r", "_", "n", "a", "m", "e">>,
          <<"r", "o", "u", "t", "e", "_", "n", "a", "m", "e">> >>] >>

\* getFieldSafely: the text of the field, "-" when it is missing, nil, empty
\* or "null"
getFieldSafely(fieldMap, fieldName) ==
    IF \E f \in fieldMap : f.k = fieldName
    THEN LET value == (CHOOSE f \in fieldMap : f.k = fieldName).v
         IN  IF value.t = "nil" THEN <<"-">>
             ELSE IF Sprint(value) = <<>> \/ Sprint(value) = <<"n", "u", "l", "l">>
             THEN <<"-">>
             ELSE Sprint(value)
    ELSE <<"-">>

\* renderDetailView: for each group its name, one row for each of its fields
\* (the field and the text of getFieldSafely, before formatFieldValue styles
\* it) and whether "No data available" is written under the rows; nothing at
\* all when width or height is not positive
renderDetailView(entry, w, h) ==
    IF w <= 0 \/ h <= 0 THEN <<>>
    ELSE [g \in 1..Len(DetailGroups) |->
             LET group == DetailGroups[g]
                 rows  == [i \in 1..Len(group.fields) |->
                              <<group.fields[i],
                                getFieldSafely(entry.Fields, group.fields[i])>>]
             IN  [title |-> group.name,
                  lines |-> rows,
                  noData |-> \A i \in 1..Len(rows) : rows[i][2] = <<"-">>]]

\* renderLogList with the start of the window left where the centring put it
\* when the end is cut to len(logs)
renderLogListNoPullBack(logCount, selectedIdx, panelHeight) ==
    LET availableLines == IF panelHeight - 4 < 0 THEN 0 ELSE panelHeight - 4
        centred        == selectedIdx - (availableLines \div 2)
        from           == IF centred < 0 THEN 0 ELSE centred
        upTo           == from + availableLines
    IN  IF logCount = 0 THEN [startIdx |-> 0, endIdx |-> 0]
        ELSE IF upTo > logCount
        THEN [startIdx |-> from, endIdx |-> logCount]
        ELSE [startIdx |-> from, endIdx |-> upTo]

\* renderLogList on logCount records: the window [startIdx, endIdx) of the
\* rows it draws (no row at all for an empty list)
renderLogList(logCount, selectedIdx, panelHeight) ==
    LET availableLines == IF panelHeight - 4 < 0 THEN 0 ELSE panelHeight - 4
        centred        == selectedIdx - (availableLines \div 2)
        from           == IF centred < 0 THEN 0 ELSE centred
        upTo           == from + availableLines
    IN  IF logCount = 0 THEN [startIdx |-> 0, endIdx |-> 0]
        ELSE IF upTo > logCount
        THEN [startIdx |-> IF logCount - availableLines < 0 THEN 0
                           ELSE logCount - availableLines,
              endIdx |-> logCount]
        ELSE [startIdx |-> from, endIdx |-> upTo]

\* rawLogHeight
RawLogHeight == 3

\* Model.View: listHeight, rawLogHeight and detailHeight as it computes them
ViewHeights(m) ==
    LET mainHeight == IF m.height - 4 < 0 THEN 0 ELSE m.height - 4
        list       == (mainHeight * 20) \div 100
        detail     == mainHeight - list - RawLogHeight
    IN  [listHeight |-> IF list < 5 THEN 5 ELSE list,
         rawLogHeight |-> RawLogHeight,
         detailHeight |-> IF detail < 10 THEN 10 ELSE detail]

\* an overlay that is labelled "Search" in both input modes
OverlayAlwaysSearch(m) ==
    IF m.searchMode \/ m.jumpMode
    THEN <<[label |-> "Search", query |-> m.searchQuery]>>
    ELSE <<>>

\* Model.View: the overlay line "<mode>: <searchQuery>" under the panels, drawn
\* only while searchMode or jumpMode is set
Overlay(m) ==
    IF m.searchMode \/ m.jumpMode
    THEN <<[label |-> IF m.jumpMode THEN "Jump to line" ELSE "Search",
            query |-> m.searchQuery]>>
    ELSE <<>>

\* Model.View: the frame, or the index-out-of-range panic of
\* m.filteredLogs[m.selectedLogIndex]; listArg, rawArg and detailArg are the
\* heights handed to renderLogList, renderRawLog and renderDetailView
View(m) ==
    IF Len(m.filteredLogs) = 0
    THEN [kind |-> "message", text |-> NoLogsMessage, panels |-> <<>>,
          logNo |-> 0, logCount |-> 0,
          listArg |-> 0, rawArg |-> 0, detailArg |-> 0, stdout |-> "",
          overlay |-> <<>>]
    ELSE IF m.selectedLogIndex < 0 \/ m.selectedLogIndex >= Len(m.filteredLogs)
    THEN [kind |-> "panic", text |-> "", panels |-> <<>>,
          logNo |-> m.selectedLogIndex + 1, logCount |-> Len(m.filteredLogs),
          listArg |-> ViewHeights(m).listHeight, rawArg |-> 0, detailArg |-> 0,
          stdout |-> "", overlay |-> <<>>]
    ELSE [kind |-> "frame", text |-> "",
          panels |-> <<"Log List", "Raw Log">> \o DetailPanel(m.width, m.height),
          logNo |-> m.selectedLogIndex + 1, logCount |-> Len(m.filteredLogs),
          listArg |-> ViewHeights(m).listHeight, rawArg |-> m.height,
          detailArg |-> m.height,
          stdout |-> DetailStdout(m.width, m.height),
          overlay |-> Overlay(m)]

----------------------------------------------------------------------------
(* main.go and the bubbletea event loop *)

HarnessIdle ==
    /\ fLogs = <<>>
    /\ fQuery = <<>>
    /\ fResult = <<>>
    /\ fDone = FALSE

WindowIdle ==
    /\ wLen = 0
    /\ wSel = 0
    /\ wHeight = 0
    /\ wWindow = [startIdx |-> 0, endIdx |-> 0]
    /\ wDone = FALSE

\* the default of getInputSource("MY_ENV_VAR", "default_value")
DefaultValue ==
    <<"d", "e", "f", "a", "u", "l", "t", "_", "v", "a", "l", "u", "e">>

\* what Kubernetes answers: the bytes of the pod log split at "\n" by
\* FetchLogsFromK8s, or an error of CreateKubeClient or FetchLogsFromK8s
PodLogs == [ok |-> TRUE, lines |-> <<TxtC, <<>>>>]
PodError == [ok |-> FALSE, lines |-> <<>>]

\* how the program is started: whether standard input is piped and its lines,
\* the value of MY_ENV_VAR (empty when unset), whether PLUGIN_POD,
\* PLUGIN_NAMESPACE and PLUGIN_CONTAINER are all set, and the pod's answer
Launch(piped, lines, myEnvVar, pluginEnv, answer) ==
    [stdinDetected |-> piped, stdinLines |-> lines, envValue |-> myEnvVar,
     k8sEnv |-> pluginEnv, pod |-> answer]

Launches ==
    {Launch(TRUE, r, <<>>, FALSE, PodError) : r \in RawInputs}
    \cup {Launch(TRUE, <<>>, <<>>, TRUE, PodLogs),
          Launch(TRUE, <<>>, <<>>, TRUE, PodError),
          Launch(TRUE, <<>>, <<>>, FALSE, PodError),
          Launch(FALSE, <<>>, <<>>, TRUE, PodLogs),
          Launch(FALSE, <<>>, <<>>, FALSE, PodError),
          Launch(FALSE, <<>>, TxtC, TRUE, PodLogs)}

\* getEnvWithFallback
getEnvWithFallback(val, defaultValue) ==
    IF val = <<>> THEN defaultValue ELSE val

\* getInputSource: the piped lines, or else the one-element slice holding
\* the value of the environment variable
getInputSource(l) ==
    IF l.stdinDetected THEN l.stdinLines
    ELSE <<getEnvWithFallback(l.envValue, DefaultValue)>>

\* main up to parseRawLogs: where the raw lines come from, the lines, and
\* whether main has called os.Exit(1)
AcquireRawLogs(l) ==
    LET input == getInputSource(l)
    IN  IF Len(input) = 0
        THEN IF l.k8sEnv
             THEN [from |-> "k8s", lines |-> l.pod.lines, exit |-> ~l.pod.ok]
             ELSE [from |-> "none", lines |-> <<>>, exit |-> TRUE]
        ELSE [from |-> IF l.stdinDetected THEN "stdin" ELSE "env",
              lines |-> input, exit |-> FALSE]

\* main: the raw lines, parseRawLogs, then Model{logs: parsedLogs,
\* filteredLogs: parsedLogs}, or os.Exit(1) when there is no input source,
\* when Kubernetes fails or when parseRawLogs returns an error
Init ==
    /\ launch \in Launches
    /\ source = AcquireRawLogs(launch).from
    /\ rawLogs = AcquireRawLogs(launch).lines
    /\ LET r == parseRawLogs(rawLogs)
           exited == AcquireRawLogs(launch).exit \/ r.err
       IN  /\ logs = IF exited THEN <<>> ELSE r.logs
           /\ filteredLogs = IF exited THEN <<>> ELSE r.logs
           /\ status = IF exited THEN "exit" ELSE "running"
    /\ selectedLogIndex = 0
    /\ searchMode = FALSE
    /\ jumpMode = FALSE
    /\ searchQuery = <<>>
    /\ width = 0
    /\ height = 0
    /\ prev = Model
    /\ msg = NoMsg
    /\ cmd = "nil"
    /\ HarnessIdle
    /\ WindowIdle

\* one turn of the event loop: Update on the message, then View on the new
\* Model; tea.Quit ends the loop, a panic in View ends the program
Deliver(message) ==
    /\ status = "running"
    /\ \E r \in {Update(Model, message)} :
           /\ Len(r.m.searchQuery) <= MaxQueryLen
           /\ logs' = r.m.logs
           /\ filteredLogs' = r.m.filteredLogs
           /\ selectedLogIndex' = r.m.selectedLogIndex
           /\ searchMode' = r.m.searchMode
           /\ jumpMode' = r.m.jumpMode
           /\ searchQuery' = r.m.searchQuery
           /\ width' = r.m.width
           /\ height' = r.m.height
           /\ cmd' = r.cmd
           /\ status' = IF r.cmd = "quit" THEN "quit"
                        ELSE IF View(r.m).kind = "panic" THEN "panic"
                        ELSE "running"
    /\ prev' = Model
    /\ msg' = message
    /\ UNCHANGED <<rawLogs, harnessVars, windowVars, mainVars>>

PressRune(c) == Deliver(KeyMsg("KeyRunes", <<c>>))

PressKey(keyType) == Deliver(KeyMsg(keyType, <<>>))

Resize(size) == Deliver(WindowSizeMsg(size[1], size[2]))

Next ==
    \/ \E c \in Runes : PressRune(c)
    \/ \E keyType \in SpecialKeys : PressKey(keyType)
    \/ \E size \in WindowSizes : Resize(size)

Spec == Init /\ [][Next]_vars

----------------------------------------------------------------------------
(* filterLogs called on its own, as TestFilterLogs calls it *)

\* the sequences over S of length at most n
SeqsUpTo(S, n) == UNION {[1..k -> S] : k \in 0..n}

\* the records handed to filterLogs: raw text and fields are independent
FilterRecords ==
    { ParsedLog(<<"e", "1">>, {}, 1),
      ParsedLog(<<"x">>, {[k |-> <<"E">>, v |-> Str(<<"y">>)]}, 2),
      ParsedLog(<<"x">>, {[k |-> <<"k">>, v |-> Num(10)]}, 3),
      ParsedLog(<<"x">>, {[k |-> <<"k">>, v |-> Nil]}, 4),
      ParsedLog(<<"X">>, {[k |-> <<"k">>, v |-> Str(<<"E", "1">>)]}, 5) }

\* the characters of the queries
QueryChars == {"e", "E", "1", "0"}

TuiIdle ==
    /\ launch = Launch(FALSE, <<>>, <<>>, FALSE, PodError)
    /\ source = "none"
    /\ rawLogs = <<>>
    /\ logs = <<>>
    /\ filteredLogs = <<>>
    /\ selectedLogIndex = 0
    /\ searchMode = FALSE
    /\ jumpMode = FALSE
    /\ searchQuery = <<>>
    /\ width = 0
    /\ height = 0
    /\ prev = Model
    /\ msg = NoMsg
    /\ cmd = "nil"
    /\ status = "idle"

InitFilter ==
    /\ TuiIdle
    /\ fLogs \in SeqsUpTo(FilterRecords, MaxFilterLogs)
    /\ fQuery \in SeqsUpTo(QueryChars, MaxQueryLen)
    /\ fResult = <<>>
    /\ fDone = FALSE
    /\ WindowIdle

CallFilter ==
    /\ ~fDone
    /\ fResult' = filterLogs(fLogs, fQuery)
    /\ fDone' = TRUE
    /\ UNCHANGED <<fLogs, fQuery, tuiVars, windowVars, mainVars>>

NextFilter == CallFilter

SpecFilter == InitFilter /\ [][NextFilter]_vars

----------------------------------------------------------------------------
(* renderLogList called on its own *)

\* the longest list and the tallest panel of the renderLogList harness
MaxListLen == 5
MaxPanelHeight == 10

InitWindow ==
    /\ TuiIdle
    /\ HarnessIdle
    /\ wLen \in 0..MaxListLen
    /\ wSel \in 0..MaxListLen
    /\ wHeight \in 0..MaxPanelHeight
    /\ wWindow = [startIdx |-> 0, endIdx |-> 0]
    /\ wDone = FALSE

CallRenderLogList ==
    /\ ~wDone
    /\ wWindow' = renderLogList(wLen, wSel, wHeight)
    /\ wDone' = TRUE
    /\ UNCHANGED <<wLen, wSel, wHeight, tuiVars, harnessVars, mainVars>>

NextWindow == CallRenderLogList

SpecWindow == InitWindow /\ [][NextWindow]_vars

----------------------------------------------------------------------------
(* Vocabulary of the properties *)

\* the mode of a Model
Mode(m) ==
    IF m.searchMode /\ m.jumpMode THEN "Both"
    ELSE IF m.searchMode THEN "Searching"
    ELSE IF m.jumpMode THEN "JumpingToLine"
    ELSE "Normal"

\* the last Update received the key of this type
KeyPressed(keyType) == msg.kind = "key" /\ msg.type = keyType

\* s contains q when letter case is ignored
CiContains(s, q) ==
    \E i \in 0..(Len(s) - Len(q)) :
        \A j \in 1..Len(q) : ToLowerChar(s[i + j]) = ToLowerChar(q[j])

\* the record matches q in its raw text, in a field key or in the string
\* rendering of a field value
CiMatches(log, q) ==
    \/ CiContains(log.RawLog, q)
    \/ \E f \in log.Fields : CiContains(f.k, q) \/ CiContains(Sprint(f.v), q)

\* a is b with some elements left out, the others in the order of b
IsSubsequence(a, b) ==
    \E f \in [1..Len(a) -> 1..Len(b)] :
        /\ \A i, j \in 1..Len(a) : i < j => f[i] < f[j]
        /\ \A i \in 1..Len(a) : a[i] = b[f[i]]

\* the positions in the view before the last Update of the record whose
\* line number is n
PositionsOfLine(n) ==
    {i \in 1..Len(prev.filteredLogs) : prev.filteredLogs[i].LineNumber = n}

\* the last Update was enter in JumpingToLine
JumpCommitted == KeyPressed("KeyEnter") /\ Mode(prev) = "JumpingToLine"

\* the last Update was enter in Searching
SearchCommitted == KeyPressed("KeyEnter") /\ Mode(prev) = "Searching"

\* the jump target typed before the last Update is a line number in
\* 1..len(allRecords)
JumpTargetValid ==
    /\ Atoi(prev.searchQuery).ok
    /\ Atoi(prev.searchQuery).n >= 1
    /\ Atoi(prev.searchQuery).n <= Len(logs)

\* down then up, pressed on the current Model
DownThenUp(down, up) == Update(Update(Model, down).m, up).m

DownKeys == {KeyMsg("KeyDown", <<>>), KeyMsg("KeyRunes", <<"j">>)}

UpKeys == {KeyMsg("KeyUp", <<>>), KeyMsg("KeyRunes", <<"k">>)}

----------------------------------------------------------------------------
(* The properties *)

\* C1: whenever visibleRecords is non-empty, 0 <= selectedIndex <
\* len(visibleRecords), in every state reachable by key and resize events
C1_SelectedIndexInBounds ==
    Len(filteredLogs) > 0 =>
        (0 <= selectedLogIndex /\ selectedLogIndex < Len(filteredLogs))

\* C2: enter in JumpingToLine with a line number n in 1..len(allRecords)
\* selects the position in visibleRecords of the record whose lineNumber is
\* n, leaves selectedIndex unchanged when no such record is visible, and in
\* both cases ends in Normal with an empty inputBuffer
C2_JumpSelectsLineNumber ==
    (JumpCommitted /\ JumpTargetValid) =>
        LET n == Atoi(prev.searchQuery).n
        IN  /\ \A i \in PositionsOfLine(n) :
                  /\ selectedLogIndex = i - 1
                  /\ filteredLogs[selectedLogIndex + 1].LineNumber = n
            /\ PositionsOfLine(n) = {} =>
                  selectedLogIndex = prev.selectedLogIndex
            /\ Mode(Model) = "Normal"
            /\ searchQuery = <<>>

\* C3: enter in JumpingToLine with an inputBuffer that is no integer, or an
\* integer below 1 or above len(allRecords), leaves selectedIndex and
\* visibleRecords unchanged, ends in Normal with an empty inputBuffer, and
\* raises no error
C3_BadJumpIgnored ==
    (JumpCommitted /\ ~JumpTargetValid) =>
        /\ selectedLogIndex = prev.selectedLogIndex
        /\ filteredLogs = prev.filteredLogs
        /\ Mode(Model) = "Normal"
        /\ searchQuery = <<>>
        /\ cmd = "nil"
        /\ status = "running"

\* C3 happens: a jump to a line number above len(allRecords) was committed
\* with the selection away from the first record
C3_Witness ==
    /\ JumpCommitted
    /\ Atoi(prev.searchQuery).ok
    /\ Atoi(prev.searchQuery).n > Len(logs)
    /\ prev.selectedLogIndex > 0

\* C4: enter in Searching sets visibleRecords to filter(allRecords,
\* inputBuffer), whatever the view was (the empty inputBuffer gives
\* allRecords); selectedIndex becomes 0 when the result is non-empty and is
\* unchanged when it is empty; the mode becomes Normal, inputBuffer empty
C4_SearchFiltersAllRecords ==
    SearchCommitted =>
        /\ filteredLogs = filterLogs(logs, prev.searchQuery)
        /\ prev.searchQuery = <<>> => filteredLogs = logs
        /\ \A i \in 1..Len(logs) :
              (\E j \in 1..Len(filteredLogs) : filteredLogs[j] = logs[i])
                  <=> CiMatches(logs[i], prev.searchQuery)
        /\ Len(filteredLogs) > 0 => selectedLogIndex = 0
        /\ Len(filteredLogs) = 0 => selectedLogIndex = prev.selectedLogIndex
        /\ Mode(Model) = "Normal"
        /\ searchQuery = <<>>

\* C4 happens: a search was committed on a narrowed view and brought back a
\* record the narrowed view had dropped
C4_Witness ==
    /\ SearchCommitted
    /\ Len(prev.filteredLogs) < Len(logs)
    /\ \E j \in 1..Len(filteredLogs) :
          \A i \in 1..Len(prev.filteredLogs) :
              prev.filteredLogs[i] # filteredLogs[j]

\* C5: in Searching or JumpingToLine every character key appends its
\* character to inputBuffer and leaves mode, selectedIndex and
\* visibleRecords unchanged
C5_CharacterAppended ==
    (KeyPressed("KeyRunes") /\ Mode(prev) \in {"Searching", "JumpingToLine"}) =>
        /\ searchQuery = prev.searchQuery \o msg.runes
        /\ Mode(Model) = Mode(prev)
        /\ selectedLogIndex = prev.selectedLogIndex
        /\ filteredLogs = prev.filteredLogs
        /\ cmd = "nil"

\* the two records of TestFilterLogs
TestLogs ==
    << ParsedLog(<<"{", "\"", "l", "e", "v", "e", "l", "\"", ":", "\"", "i",
                   "n", "f", "o", "\"", ",", "\"", "m", "e", "s", "s", "a",
                   "g", "e", "\"", ":", "\"", "S", "e", "r", "v", "e", "r",
                   " ", "s", "t", "a", "r", "t", "e", "d", "\"", "}">>,
                 {}, 0),
       ParsedLog(<<"{", "\"", "l", "e", "v", "e", "l", "\"", ":", "\"", "e",
                   "r", "r", "o", "r", "\"", ",", "\"", "m", "e", "s", "s",
                   "a", "g", "e", "\"", ":", "\"", "C", "o", "n", "n", "e",
                   "c", "t", "i", "o", "n", " ", "f", "a", "i", "l", "e",
                   "d", "\"", "}">>,
                 {}, 0) >>

\* C6: filterLogs(R, "") is R; filterLogs(R, q) is a subsequence of R in the
\* original order; a record of R is in the result exactly when it matches q
\* with letter case ignored, in its raw text, a field key or the rendering
\* of a field value; the query "error" keeps the second test record only
C6_FilterCharacterised ==
    /\ fDone =>
          /\ fQuery = <<>> => fResult = fLogs
          /\ IsSubsequence(fResult, fLogs)
          /\ \A i \in 1..Len(fLogs) :
                (\E j \in 1..Len(fResult) : fResult[j] = fLogs[i])
                    <=> CiMatches(fLogs[i], fQuery)
    /\ filterLogs(TestLogs, <<"e", "r", "r", "o", "r">>) = <<TestLogs[2]>>

\* C6 happens: filterLogs kept the second of two records only, which
\* matches in a field and not in its raw text
C6_Witness ==
    /\ fDone
    /\ Len(fLogs) = 2
    /\ fQuery # <<>>
    /\ fResult = <<fLogs[2]>>
    /\ fLogs[1] # fLogs[2]
    /\ ~CiContains(fLogs[2].RawLog, fQuery)

\* C7: View never reads outside visibleRecords: an empty view gives the
\* message telling the user to press 'q' and no panel; a non-empty view
\* reads an existing record and its header shows "Log i of n" with
\* i = selectedIndex + 1, n = len(visibleRecords) and 1 <= i <= n
C7_ViewInBounds ==
    LET frame == View(Model)
    IN  /\ frame.kind # "panic"
        /\ Len(filteredLogs) = 0 =>
              /\ frame.kind = "message"
              /\ frame.text = NoLogsMessage
              /\ frame.text # ""
              /\ frame.panels = <<>>
        /\ Len(filteredLogs) > 0 =>
              /\ frame.kind = "frame"
              /\ frame.logNo = selectedLogIndex + 1
              /\ frame.logCount = Len(filteredLogs)
              /\ 1 <= frame.logNo
              /\ frame.logNo <= frame.logCount

\* C8: only enter in Searching changes visibleRecords; every other event
\* leaves it as it was
C8_OnlySearchChangesView ==
    filteredLogs # prev.filteredLogs => SearchCommitted

\* C8 happens: with a narrowed view, '/' was pressed in Searching and the
\* view is as it was
C8_Witness ==
    /\ KeyPressed("KeyRunes")
    /\ msg.runes = <<"/">>
    /\ Mode(prev) = "Searching"
    /\ Mode(Model) = "JumpingToLine"
    /\ Len(filteredLogs) > 0
    /\ Len(filteredLogs) < Len(logs)
    /\ filteredLogs = prev.filteredLogs

\* C9: visibleRecords is a subsequence of allRecords in the original order,
\* stays equal to allRecords as long as no search is committed, and
\* allRecords never changes
C9_ViewIsSubsequence ==
    /\ IsSubsequence(filteredLogs, logs)
    /\ (prev.filteredLogs = logs /\ ~SearchCommitted) => filteredLogs = logs
    /\ logs = prev.logs
    /\ logs = parseRawLogs(rawLogs).logs

\* C9 happens: a search left two of three records in the view
C9_Witness ==
    /\ SearchCommitted
    /\ Len(logs) = 3
    /\ Len(filteredLogs) = 2

\* C10: in Normal with a non-empty view, down then up returns selectedIndex
\* to its value; up at index 0 stays at 0; down at the last index stays
\* there; on two records down gives 1 and then up gives 0
C10_DownUpRestores ==
    (Mode(Model) = "Normal" /\ Len(filteredLogs) > 0) =>
        \A down \in DownKeys, up \in UpKeys :
            /\ DownThenUp(down, up).selectedLogIndex = selectedLogIndex
            /\ selectedLogIndex = 0 =>
                  Update(Model, up).m.selectedLogIndex = 0
            /\ selectedLogIndex = Len(filteredLogs) - 1 =>
                  Update(Model, down).m.selectedLogIndex = selectedLogIndex
            /\ (selectedLogIndex = 0 /\ Len(filteredLogs) = 2) =>
                  /\ Update(Model, down).m.selectedLogIndex = 1
                  /\ DownThenUp(down, up).selectedLogIndex = 0

\* C10 as amended: in Normal with a non-empty view, down then up returns
\* selectedIndex to its value when selectedIndex is below the last index or
\* is 0 in a view of one record; up at index 0 stays at 0; down at the last
\* index stays there; on two records down gives 1 and then up gives 0
C10_DownUpRestoresBelowLast ==
    (Mode(Model) = "Normal" /\ Len(filteredLogs) > 0) =>
        \A down \in DownKeys, up \in UpKeys :
            /\ (\/ selectedLogIndex < Len(filteredLogs) - 1
                \/ (selectedLogIndex = 0 /\ Len(filteredLogs) = 1)) =>
                  DownThenUp(down, up).selectedLogIndex = selectedLogIndex
            /\ selectedLogIndex = 0 =>
                  Update(Model, up).m.selectedLogIndex = 0
            /\ selectedLogIndex = Len(filteredLogs) - 1 =>
                  Update(Model, down).m.selectedLogIndex = selectedLogIndex
            /\ (selectedLogIndex = 0 /\ Len(filteredLogs) = 2) =>
                  /\ Update(Model, down).m.selectedLogIndex = 1
                  /\ DownThenUp(down, up).selectedLogIndex = 0

\* C10 happens: on two records in Normal, up was pressed at index 1 and the
\* selection is back at 0
C10_Witness ==
    /\ KeyPressed("KeyUp")
    /\ Mode(prev) = "Normal"
    /\ Len(filteredLogs) = 2
    /\ prev.selectedLogIndex = 1
    /\ selectedLogIndex = 0

----------------------------------------------------------------------------
(* C11 *)

\* the quit key: the rune q or ctrl+c
QuitPressed ==
    KeyPressed("KeyCtrlC") \/ (KeyPressed("KeyRunes") /\ msg.runes = <<"q">>)

\* C11: from every mode the quit key makes Update return the quit command,
\* and the state it returns equals the state before the event
C11_QuitFromEveryMode ==
    QuitPressed => cmd = "quit" /\ Model = prev

\* q was pressed while a search was being typed
C11_Witness ==
    /\ KeyPressed("KeyRunes") /\ msg.runes = <<"q">>
    /\ Mode(prev) = "Searching"
    /\ prev.searchQuery # <<>>
    /\ cmd = "quit"

----------------------------------------------------------------------------
(* C12 *)

\* C12: for non-empty visible records with a valid selected index and every
\* viewport size, the initial 0 x 0 included, the frame holds the list marker,
\* the raw marker and the detail marker, in that order
C12_ThreeSectionsInOrder ==
    (status = "running" /\ View(Model).kind = "frame")
        => View(Model).panels = <<"Log List", "Raw Log", "Parsed Log Details">>

----------------------------------------------------------------------------
(* C13 *)

\* the panel heights for a viewport of height h
PanelHeights(h) ==
    LET main == IF h - 4 > 0 THEN h - 4 ELSE 0
        fifth == (main * 20) \div 100
    IN  [list |-> IF fifth > 5 THEN fifth ELSE 5,
         raw |-> 3,
         detail |-> IF main - fifth - 3 > 10 THEN main - fifth - 3 ELSE 10]

\* C13: the heights handed to the three panel renderers are max(5, main*20/100),
\* 3 and max(10, main - main*20/100 - 3), with main = max(0, h - 4)
C13_PanelHeightsHandedOver ==
    (status = "running" /\ View(Model).kind = "frame")
        => /\ View(Model).listArg = PanelHeights(height).list
           /\ View(Model).rawArg = PanelHeights(height).raw
           /\ View(Model).detailArg = PanelHeights(height).detail

----------------------------------------------------------------------------
(* C14 *)

\* C14: a resize notification sets width and height to the notified values,
\* leaves mode, input buffer, selected index, visible and all records
\* unchanged, and does not signal termination
C14_ResizeOnlySetsViewport ==
    msg.kind = "size"
        => /\ width = msg.w
           /\ height = msg.h
           /\ Model = [prev EXCEPT !.width = msg.w, !.height = msg.h]
           /\ cmd = "nil"
           /\ status # "quit"

\* a resize arrived while a search was being typed and changed the viewport
C14_Witness ==
    /\ msg.kind = "size"
    /\ Mode(prev) = "Searching"
    /\ prev.searchQuery # <<>>
    /\ prev.width # width
    /\ width # height

----------------------------------------------------------------------------
(* C15 *)

\* C15: the search flag and the jump flag are never both set
C15_ModesExclusive ==
    ~(searchMode /\ jumpMode)

\* "/" was pressed while searching, and the mode is now JumpingToLine
C15_Witness ==
    /\ KeyPressed("KeyRunes") /\ msg.runes = <<"/">>
    /\ prev.searchMode
    /\ jumpMode
    /\ ~searchMode

----------------------------------------------------------------------------
(* C16 *)

\* C16: whenever the mode is Normal the input buffer is empty
C16_NormalBufferEmpty ==
    Mode(Model) = "Normal" => searchQuery = <<>>

\* enter committed a typed search and the mode is Normal again
C16_Witness ==
    /\ SearchCommitted
    /\ prev.searchQuery # <<>>
    /\ Mode(Model) = "Normal"
    /\ searchQuery = <<>>

----------------------------------------------------------------------------
(* C17 *)

\* C17: whenever the view engine is started, allRecords is non-empty
C17_StartedWithRecords ==
    status = "running" => Len(logs) > 0

----------------------------------------------------------------------------
(* C18 *)

\* the input is not one JSON array, so it is read line by line
LineByLine == ~UnmarshalArray(Join(rawLogs)).ok

\* the 1-based positions of the input lines that are valid JSON objects
ValidObjectLines ==
    {i \in 1..Len(rawLogs) : UnmarshalObject(rawLogs[i]).ok}

\* C18: the line numbers of the records are strictly increasing; line by line
\* the records are exactly the valid JSON object lines, each with its position
\* in the input, and an error is returned only when no line is valid; from a
\* JSON array element i has line number i
C18_LineNumbers ==
    status # "idle"
        => /\ \A i, j \in 1..Len(logs) :
                  i < j => logs[i].LineNumber < logs[j].LineNumber
           /\ LineByLine
                  => /\ status = "exit" <=> ValidObjectLines = {}
                     /\ status # "exit"
                            => /\ {logs[i].LineNumber : i \in 1..Len(logs)}
                                      = ValidObjectLines
                               /\ \A i \in 1..Len(logs) :
                                      logs[i].RawLog = rawLogs[logs[i].LineNumber]
           /\ ~LineByLine
                  => \A i \in 1..Len(logs) : logs[i].LineNumber = i

----------------------------------------------------------------------------
(* C19 *)

\* C19: a call to View writes nothing to standard output, whatever the
\* viewport width and height
C19_ViewWritesNothing ==
    status = "running" => View(Model).stdout = ""

----------------------------------------------------------------------------
(* C20 *)

\* the smaller of two numbers
Min(a, b) == IF a < b THEN a ELSE b

\* C20: for a list of n >= 1 records, a selected index s in 0..n-1 and a
\* panel height with availableLines = height - 4 >= 1, the window drawn by
\* renderLogList has 0 <= startIdx <= s < endIdx <= n and holds
\* min(availableLines, n) rows
C20_WindowHoldsSelection ==
    (wDone /\ wLen >= 1 /\ wSel < wLen /\ wHeight - 4 >= 1)
        => /\ 0 <= wWindow.startIdx
           /\ wWindow.startIdx <= wSel
           /\ wSel < wWindow.endIdx
           /\ wWindow.endIdx <= wLen
           /\ wWindow.endIdx - wWindow.startIdx = Min(wHeight - 4, wLen)

\* the selection is near the end of a list longer than the window: the window
\* was cut at the end of the list and pulled back to stay full
C20_Witness ==
    /\ wDone /\ wLen >= 1 /\ wSel < wLen /\ wHeight - 4 >= 1
    /\ wWindow.endIdx = wLen
    /\ wWindow.startIdx > 0
    /\ wWindow.startIdx < wSel - ((wHeight - 4) \div 2)

----------------------------------------------------------------------------
(* C21 *)

\* the mode before the last Update was Searching or JumpingToLine
WasTyping == Mode(prev) \in {"Searching", "JumpingToLine"}

\* C21: esc in Searching or JumpingToLine sets the mode to Normal and clears
\* the input buffer, and leaves the selected index and the view unchanged
C21_EscDiscardsInput ==
    (KeyPressed("KeyEsc") /\ WasTyping)
        => /\ Mode(Model) = "Normal"
           /\ searchQuery = <<>>
           /\ selectedLogIndex = prev.selectedLogIndex
           /\ filteredLogs = prev.filteredLogs
           /\ logs = prev.logs
           /\ cmd = "nil"

\* esc was pressed on a typed search that would have changed the view
C21_Witness ==
    /\ KeyPressed("KeyEsc")
    /\ Mode(prev) = "Searching"
    /\ prev.searchQuery # <<>>
    /\ filterLogs(logs, prev.searchQuery) # filteredLogs
    /\ Mode(Model) = "Normal"

----------------------------------------------------------------------------
(* C22 *)

\* s without its last element
DropLast(s) == IF Len(s) = 0 THEN s ELSE SubSeq(s, 1, Len(s) - 1)

\* the input buffer after the character c and then backspace are pressed on
\* the current Model
TypeThenBackspace(c) ==
    Update(Update(Model, KeyMsg("KeyRunes", <<c>>)).m,
           KeyMsg("KeyBackspace", <<>>)).m.searchQuery

\* C22: backspace in Searching or JumpingToLine removes the last character of
\* the input buffer (nothing when it is empty) and leaves mode, selected index
\* and view unchanged; a character and then backspace restore the buffer
C22_BackspaceUndoesTyping ==
    /\ (KeyPressed("KeyBackspace") /\ WasTyping)
           => Model = [prev EXCEPT !.searchQuery = DropLast(prev.searchQuery)]
    /\ (status = "running" /\ Mode(Model) \in {"Searching", "JumpingToLine"})
           => \A c \in Runes : TypeThenBackspace(c) = searchQuery

----------------------------------------------------------------------------
(* C23 *)

\* the keys that act in Normal mode
NormalModeKeys == {"q", "ctrl+c", "up", "k", "down", "j", "/", "s"}

\* C23: in Normal mode every key other than quit, up/k, down/j, "/" and "s"
\* leaves the whole state unchanged and does not signal termination
C23_OtherKeysIgnoredInNormal ==
    (msg.kind = "key" /\ Mode(prev) = "Normal"
         /\ KeyString(msg) \notin NormalModeKeys)
        => Model = prev /\ cmd = "nil" /\ status # "quit"

\* a character was typed in Normal mode while the view was a narrowed one
C23_Witness ==
    /\ KeyPressed("KeyRunes")
    /\ msg.runes = <<"E">>
    /\ Mode(prev) = "Normal"
    /\ filteredLogs # logs
    /\ Model = prev

----------------------------------------------------------------------------
(* C24 *)

\* C24: for a non-empty view the frame ends with an overlay line exactly when
\* the mode is Searching or JumpingToLine; the overlay shows "Search" or
\* "Jump to line" followed by the input buffer
C24_OverlayOnlyWhileTyping ==
    (status = "running" /\ View(Model).kind = "frame")
        => /\ View(Model).overlay # <<>>
                  <=> Mode(Model) \in {"Searching", "JumpingToLine"}
           /\ Mode(Model) = "Searching"
                  => View(Model).overlay
                         = <<[label |-> "Search", query |-> searchQuery]>>
           /\ Mode(Model) = "JumpingToLine"
                  => View(Model).overlay
                         = <<[label |-> "Jump to line", query |-> searchQuery]>>

\* a frame drawn while a line number is being typed
C24_Witness ==
    /\ status = "running"
    /\ View(Model).kind = "frame"
    /\ Mode(Model) = "JumpingToLine"
    /\ searchQuery # <<>>
    /\ View(Model).overlay # <<>>

----------------------------------------------------------------------------
(* C25 *)

\* the selected record
SelectedLog == filteredLogs[selectedLogIndex + 1]

\* the field is present in the record: not missing, not null, not empty
FieldPresent(entry, fieldName) ==
    \E f \in entry.Fields :
        f.k = fieldName /\ f.v.t # "nil" /\ Sprint(f.v) # <<>>

\* C25: in the detail panel a group none of whose fields is present shows the
\* "no data" placeholder instead of field rows, and a group with a present
\* field shows its rows without the placeholder
C25_PlaceholderInsteadOfRows ==
    (status = "running" /\ View(Model).kind = "frame"
         /\ width > 0 /\ height > 0)
        => \A g \in 1..Len(DetailGroups) :
               LET drawn   == renderDetailView(SelectedLog, width, height)[g]
                   present == \E i \in 1..Len(DetailGroups[g].fields) :
                                  FieldPresent(SelectedLog, DetailGroups[g].fields[i])
               IN  /\ ~present => drawn.noData /\ drawn.lines = <<>>
                   /\ present => ~drawn.noData /\ drawn.lines # <<>>

----------------------------------------------------------------------------
(* C26 *)

\* C26: when no piped standard input is detected and the pod, namespace and
\* container variables are all set, main fetches the lines from Kubernetes
C26_KubernetesWithoutStdin ==
    (status # "idle" /\ ~launch.stdinDetected /\ launch.k8sEnv)
        => source = "k8s"

----------------------------------------------------------------------------
(* C27 *)

\* the Model main builds on the records R
ModelOf(R) ==
    [logs |-> R, filteredLogs |-> R, selectedLogIndex |-> 0,
     searchMode |-> FALSE, jumpMode |-> FALSE, searchQuery |-> <<>>,
     width |-> 0, height |-> 0]

\* the Model after "s", the query q in the input buffer, and enter
CommitSearch(m, q) ==
    Update([Update(m, KeyMsg("KeyRunes", <<"s">>)).m EXCEPT !.searchQuery = q],
           KeyMsg("KeyEnter", <<>>)).m

\* the queries of the filterLogs harness
Queries == SeqsUpTo(QueryChars, MaxQueryLen)

\* C27: filterLogs(filterLogs(R, q), q) = filterLogs(R, q), and after
\* committing q1 and then q2 the view is filterLogs(allRecords, q2)
C27_FilterIdempotentNotCumulative ==
    fDone
        => /\ filterLogs(fResult, fQuery) = fResult
           /\ \A q2 \in Queries :
                  CommitSearch(CommitSearch(ModelOf(fLogs), fQuery), q2).filteredLogs
                      = filterLogs(fLogs, q2)

\* the first query dropped a record that a second query brings back
C27_Witness ==
    /\ fDone
    /\ fQuery # <<>>
    /\ fResult # <<>>
    /\ Len(fResult) < Len(fLogs)
    /\ \E q2 \in Queries \ {<<>>} :
           LET view == CommitSearch(CommitSearch(ModelOf(fLogs), fQuery), q2).filteredLogs
           IN  \E i \in 1..Len(view) :
                   \A j \in 1..Len(fResult) : view[i] # fResult[j]

====
